---- MODULE Spec2Model ----
(***************************************************************************)
(* The Tic-Tac-Toe serial front end (src/Game.py): the UARTCommunication   *)
(* adapter, the GUI callbacks that send commands, and the auto_receive     *)
(* poll loop that dispatches the device's JSON lines to the board and log. *)
(***************************************************************************)
EXTENDS Integers, Sequences, FiniteSets, TLC

(***************************************************************************)
(* Text.  A Python str is modelled as the sequence of its characters, so   *)
(* that formatting, serialising and parsing are computed character by      *)
(* character.                                                              *)
(***************************************************************************)
\* the printable ASCII characters, code points 32..126 in order (96, the grave
\* accent, is written GRAVE)
AsciiPrintable ==
    <<" ", "!", "\"", "#", "$", "%", "&", "'", "(", ")", "*", "+", ",", "-", ".", "/", "0",
      "1", "2", "3", "4", "5", "6", "7", "8", "9", ":", ";", "<", "=", ">", "?", "@", "A", "B",
      "C", "D", "E", "F", "G", "H", "I", "J", "K", "L", "M", "N", "O", "P", "Q", "R", "S", "T",
      "U", "V", "W", "X", "Y", "Z", "[", "\\", "]", "^", "_", "GRAVE", "a", "b", "c", "d", "e",
      "f", "g", "h", "i", "j", "k", "l", "m", "n", "o", "p", "q", "r", "s", "t", "u", "v", "w",
      "x", "y", "z", "{", "|", "}", "~">>

\* Game.py:86,108,163  "Port not opened"
STR_PORT_NOT_OPENED ==
    <<"P", "o", "r", "t", " ", "n", "o", "t", " ", "o", "p", "e", "n", "e", "d">>

\* Game.py:105  "Error: Invalid JSON received"
STR_INVALID_JSON ==
    <<"E", "r", "r", "o", "r", ":", " ", "I", "n", "v", "a", "l", "i", "d", " ", "J", "S", "O",
      "N", " ", "r", "e", "c", "e", "i", "v", "e", "d">>

\* Game.py:63,85,107,179  the prefix "Error: "
STR_ERROR ==
    <<"E", "r", "r", "o", "r", ":", " ">>

\* Game.py:83  the prefix "Sent: "
STR_SENT ==
    <<"S", "e", "n", "t", ":", " ">>

\* Game.py:60  the prefix "Connected to "
STR_CONNECTED_TO ==
    <<"C", "o", "n", "n", "e", "c", "t", "e", "d", " ", "t", "o", " ">>

\* Game.py:209  "Connected"
STR_CONNECTED ==
    <<"C", "o", "n", "n", "e", "c", "t", "e", "d">>

\* Game.py:176  the prefix "Received: "
STR_RECEIVED ==
    <<"R", "e", "c", "e", "i", "v", "e", "d", ":", " ">>

\* Game.py:168  the prefix "Game status: "
STR_GAME_STATUS ==
    <<"G", "a", "m", "e", " ", "s", "t", "a", "t", "u", "s", ":", " ">>

\* Game.py:212  the prefix "Failed to connect: "
STR_FAILED_TO_CONNECT ==
    <<"F", "a", "i", "l", "e", "d", " ", "t", "o", " ", "c", "o", "n", "n", "e", "c", "t", ":",
      " ">>

\* Game.py:238  the prefix "Game mode set to "
STR_GAME_MODE_SET ==
    <<"G", "a", "m", "e", " ", "m", "o", "d", "e", " ", "s", "e", "t", " ", "t", "o", " ">>

\* Game.py:252  "Status: Not connected"
STR_NOT_CONNECTED ==
    <<"S", "t", "a", "t", "u", "s", ":", " ", "N", "o", "t", " ", "c", "o", "n", "n", "e", "c",
      "t", "e", "d">>

\* Game.py:171  "Win Status"
STR_WIN_TITLE ==
    <<"W", "i", "n", " ", "S", "t", "a", "t", "u", "s">>

\* Game.py:221  the initial text of a board button, " "
STR_BLANK ==
    <<" ">>

\* Game.py:165  "board"
KEY_BOARD ==
    <<"b", "o", "a", "r", "d">>

\* Game.py:168,172  "message"
KEY_MESSAGE ==
    <<"m", "e", "s", "s", "a", "g", "e">>

\* Game.py:170  "type"
KEY_TYPE ==
    <<"t", "y", "p", "e">>

\* Game.py:170  "win_status"
STR_WIN_STATUS ==
    <<"w", "i", "n", "_", "s", "t", "a", "t", "u", "s">>

\* Game.py:131,142,152  "command"
KEY_COMMAND ==
    <<"c", "o", "m", "m", "a", "n", "d">>

\* Game.py:131  "row"
KEY_ROW ==
    <<"r", "o", "w">>

\* Game.py:131  "col"
KEY_COL ==
    <<"c", "o", "l">>

\* Game.py:142  "mode"
KEY_MODE ==
    <<"m", "o", "d", "e">>

\* Game.py:131  "MOVE"
STR_MOVE ==
    <<"M", "O", "V", "E">>

\* Game.py:142  "MODE"
STR_MODE ==
    <<"M", "O", "D", "E">>

\* Game.py:152  "RESET"
STR_RESET ==
    <<"R", "E", "S", "E", "T">>

\* Game.py:231  "User vs User"
MODE_USER_USER ==
    <<"U", "s", "e", "r", " ", "v", "s", " ", "U", "s", "e", "r">>

\* Game.py:231  "User vs AI"
MODE_USER_AI ==
    <<"U", "s", "e", "r", " ", "v", "s", " ", "A", "I">>

\* Game.py:231  "AI vs AI"
MODE_AI_AI ==
    <<"A", "I", " ", "v", "s", " ", "A", "I">>

\* str(None)
STR_NONE ==
    <<"N", "o", "n", "e">>

\* str(True)
STR_TRUE ==
    <<"T", "r", "u", "e">>

\* str(False)
STR_FALSE ==
    <<"F", "a", "l", "s", "e">>

\* the JSON literal null
JSON_NULL ==
    <<"n", "u", "l", "l">>

\* the JSON literal true
JSON_TRUE ==
    <<"t", "r", "u", "e">>

\* the JSON literal false
JSON_FALSE ==
    <<"f", "a", "l", "s", "e">>

\* str(IndexError) of a list subscript
MSG_LIST_INDEX ==
    <<"l", "i", "s", "t", " ", "i", "n", "d", "e", "x", " ", "o", "u", "t", " ", "o", "f", " ",
      "r", "a", "n", "g", "e">>

\* str(IndexError) of a str subscript
MSG_STRING_INDEX ==
    <<"s", "t", "r", "i", "n", "g", " ", "i", "n", "d", "e", "x", " ", "o", "u", "t", " ", "o",
      "f", " ", "r", "a", "n", "g", "e">>

\* str(TypeError) of subscripting an int
MSG_INT_SUBSCRIPT ==
    <<"'", "i", "n", "t", "'", " ", "o", "b", "j", "e", "c", "t", " ", "i", "s", " ", "n", "o",
      "t", " ", "s", "u", "b", "s", "c", "r", "i", "p", "t", "a", "b", "l", "e">>

\* str(TypeError) of subscripting None
MSG_NONE_SUBSCRIPT ==
    <<"'", "N", "o", "n", "e", "T", "y", "p", "e", "'", " ", "o", "b", "j", "e", "c", "t", " ",
      "i", "s", " ", "n", "o", "t", " ", "s", "u", "b", "s", "c", "r", "i", "p", "t", "a", "b",
      "l", "e">>

\* str(TypeError) of subscripting a bool
MSG_BOOL_SUBSCRIPT ==
    <<"'", "b", "o", "o", "l", "'", " ", "o", "b", "j", "e", "c", "t", " ", "i", "s", " ", "n",
      "o", "t", " ", "s", "u", "b", "s", "c", "r", "i", "p", "t", "a", "b", "l", "e">>

\* str(UnicodeDecodeError), up to the position
MSG_UTF8_HEAD ==
    <<"'", "u", "t", "f", "-", "8", "'", " ", "c", "o", "d", "e", "c", " ", "c", "a", "n", "'",
      "t", " ", "d", "e", "c", "o", "d", "e", " ", "b", "y", "t", "e", " ", "0", "x", "f", "f",
      " ", "i", "n", " ", "p", "o", "s", "i", "t", "i", "o", "n", " ">>

\* str(UnicodeDecodeError), after the position
MSG_UTF8_TAIL ==
    <<":", " ", "i", "n", "v", "a", "l", "i", "d", " ", "s", "t", "a", "r", "t", " ", "b", "y",
      "t", "e">>

\* Tests_sw.py:23  the exception text of a failing serial.Serial(...)
MSG_PORT_ERROR ==
    <<"P", "o", "r", "t", " ", "e", "r", "r", "o", "r">>

\* the exception text of a failing serial.Serial(...) that holds the word
\* open_port_callback looks for in the status (Game.py:209)
MSG_CONNECTED_BUSY ==
    <<"C", "o", "n", "n", "e", "c", "t", "e", "d", " ", "d", "e", "v", "i", "c", "e", " ", "i",
      "s", " ", "b", "u", "s", "y">>

\* the exception text of a failing ser.write(...)
MSG_WRITE_FAILED ==
    <<"W", "r", "i", "t", "e", " ", "t", "i", "m", "e", "o", "u", "t">>

\* Tests_sw.py:17,24  the port name
PORT_COM3 ==
    <<"C", "O", "M", "3">>

(***************************************************************************)
(* Python values.  A value is a record [t, v]: t names the Python type and *)
(* v holds the content.  A str is a sequence of one-character strings, a   *)
(* dict is the sequence of its <<key, value>> pairs in insertion order.    *)
(***************************************************************************)
PyStr(s) == [t |-> "str", v |-> s]

PyInt(n) == [t |-> "int", v |-> n]

PyList(items) == [t |-> "list", v |-> items]

PyDict(pairs) == [t |-> "dict", v |-> pairs]

PyBool(b) == [t |-> "bool", v |-> b]

PyNone == [t |-> "None", v |-> <<>>]

\* a == b of Python, for the types above (a bool never meets an int here)
PyEq(a, b) == a.t = b.t /\ a.v = b.v

\* bool(x): None, "", 0, [], {} and False are false
Truthy(x) ==
    CASE x.t = "None" -> FALSE
      [] x.t = "bool" -> x.v
      [] x.t = "int" -> x.v # 0
      [] x.t \in {"str", "list", "dict"} -> Len(x.v) > 0

Digits == <<"0", "1", "2", "3", "4", "5", "6", "7", "8", "9">>

RECURSIVE NatToStr(_)
NatToStr(n) == IF n < 10 THEN <<Digits[n + 1]>> ELSE NatToStr(n \div 10) \o <<Digits[(n % 10) + 1]>>

\* str(n) for an int
IntToStr(n) == IF n < 0 THEN <<"-">> \o NatToStr(0 - n) ELSE NatToStr(n)

\* format(x) as an f-string field does: str(x)
Format(x) ==
    CASE x.t = "str" -> x.v
      [] x.t = "int" -> IntToStr(x.v)
      [] x.t = "None" -> STR_NONE
      [] x.t = "bool" -> IF x.v THEN STR_TRUE ELSE STR_FALSE

\* key in d, for a dict d
DictHas(d, k) == \E n \in 1..Len(d.v) : d.v[n][1] = k

\* d[key], for a key the dict has
DictAt(d, k) == d.v[CHOOSE n \in 1..Len(d.v) : d.v[n][1] = k][2]

\* d.get(key)
DictGet(d, k) == IF DictHas(d, k) THEN DictAt(d, k) ELSE PyNone

\* d[key] = value: a key already present keeps its place
DictSet(pairs, k, val) ==
    IF \E n \in 1..Len(pairs) : pairs[n][1] = k
    THEN [n \in 1..Len(pairs) |-> IF pairs[n][1] = k THEN <<k, val>> ELSE pairs[n]]
    ELSE Append(pairs, <<k, val>>)

\* the outcome of an expression that may raise: ok, the value, or the exception text
Ok(val) == [ok |-> TRUE, v |-> val, msg |-> <<>>]

Raise(text) == [ok |-> FALSE, v |-> PyNone, msg |-> text]

\* x[i] for an int i >= 0
Subscript(x, i) ==
    CASE x.t = "list" -> IF i < Len(x.v) THEN Ok(x.v[i + 1]) ELSE Raise(MSG_LIST_INDEX)
      [] x.t = "str" -> IF i < Len(x.v) THEN Ok(PyStr(<<x.v[i + 1]>>)) ELSE Raise(MSG_STRING_INDEX)
      [] x.t = "dict" -> Raise(IntToStr(i))
      [] x.t = "int" -> Raise(MSG_INT_SUBSCRIPT)
      [] x.t = "bool" -> Raise(MSG_BOOL_SUBSCRIPT)
      [] x.t = "None" -> Raise(MSG_NONE_SUBSCRIPT)

(***************************************************************************)
(* str.encode() and bytes.decode().  A byte is an integer 0..255; the      *)
(* modelled alphabet is ASCII (tab, LF, CR, 32..126) and the byte 0xFF,    *)
(* which no UTF-8 text contains.                                           *)
(***************************************************************************)
Chr(b) ==
    CASE b = 9 -> "\t"
      [] b = 10 -> "\n"
      [] b = 13 -> "\r"
      [] b \in 32..126 -> AsciiPrintable[b - 31]

\* the code point of each character, tabulated once
OrdTable ==
    [c \in {AsciiPrintable[n] : n \in 1..Len(AsciiPrintable)} \cup {"\t", "\n", "\r"} |->
        CASE c = "\t" -> 9
          [] c = "\n" -> 10
          [] c = "\r" -> 13
          [] OTHER -> 31 + (CHOOSE n \in 1..Len(AsciiPrintable) : AsciiPrintable[n] = c)]

Ord(c) == OrdTable[c]

\* s.encode(): one byte per ASCII character
Encode(s) == [n \in 1..Len(s) |-> Ord(s[n])]

\* the 0-based position of the first byte that is no UTF-8, or -1
FirstBadByte(bytes) ==
    IF \E n \in 1..Len(bytes) : bytes[n] > 127
    THEN (CHOOSE n \in 1..Len(bytes) : bytes[n] > 127 /\ \A m \in 1..(n - 1) : bytes[m] <= 127) - 1
    ELSE -1

\* bytes.decode() given the position of the first bad byte
DecodeAt(bytes, bad) ==
    IF bad >= 0
    THEN Raise(MSG_UTF8_HEAD \o IntToStr(bad) \o MSG_UTF8_TAIL)
    ELSE Ok(PyStr([n \in 1..Len(bytes) |-> Chr(bytes[n])]))

\* bytes.decode(): the str, or UnicodeDecodeError
Decode(bytes) == DecodeAt(bytes, FirstBadByte(bytes))

Whitespace == {" ", "\t", "\n", "\r"}

RECURSIVE LStrip(_)
LStrip(s) == IF Len(s) > 0 /\ s[1] \in Whitespace THEN LStrip(Tail(s)) ELSE s

RECURSIVE RStrip(_)
RStrip(s) == IF Len(s) > 0 /\ s[Len(s)] \in Whitespace THEN RStrip(SubSeq(s, 1, Len(s) - 1)) ELSE s

\* s.strip()
Strip(s) == RStrip(LStrip(s))

(***************************************************************************)
(* json.dumps(obj) with the default separators ", " and ": ".              *)
(***************************************************************************)
RECURSIVE EscapeStr(_)
EscapeStr(s) ==
    IF Len(s) = 0 THEN <<>>
    ELSE (IF s[1] \in {"\"", "\\"} THEN <<"\\", s[1]>>
          ELSE IF s[1] = "\n" THEN <<"\\", "n">>
          ELSE IF s[1] = "\t" THEN <<"\\", "t">>
          ELSE IF s[1] = "\r" THEN <<"\\", "r">>
          ELSE <<s[1]>>) \o EscapeStr(Tail(s))

RECURSIVE Dumps(_)
RECURSIVE DumpsItems(_, _)
\* the items as str(dict) writes them, keys in single quotes: Game.py:81 with
\* str(message) for json.dumps(message)
DumpsItems_single_quotes(items, isDict) ==
    IF Len(items) = 0 THEN <<>>
    ELSE (IF isDict
          THEN <<"'">> \o items[1][1] \o <<"'", ":", " ">> \o Dumps(items[1][2])
          ELSE Dumps(items[1]))
         \o (IF Len(items) > 1 THEN <<",", " ">> ELSE <<>>)
         \o DumpsItems(Tail(items), isDict)

DumpsItems(items, isDict) ==
    IF Len(items) = 0 THEN <<>>
    ELSE (IF isDict
          THEN <<"\"">> \o EscapeStr(items[1][1]) \o <<"\"", ":", " ">> \o Dumps(items[1][2])
          ELSE Dumps(items[1]))
         \o (IF Len(items) > 1 THEN <<",", " ">> ELSE <<>>)
         \o DumpsItems(Tail(items), isDict)

Dumps(x) ==
    CASE x.t = "str" -> <<"\"">> \o EscapeStr(x.v) \o <<"\"">>
      [] x.t = "int" -> IntToStr(x.v)
      [] x.t = "None" -> JSON_NULL
      [] x.t = "bool" -> IF x.v THEN JSON_TRUE ELSE JSON_FALSE
      [] x.t = "list" -> <<"[">> \o DumpsItems(x.v, FALSE) \o <<"]">>
      [] x.t = "dict" -> <<"{">> \o DumpsItems(x.v, TRUE) \o <<"}">>

(***************************************************************************)
(* json.loads(s): objects, arrays, strings, integers, true, false, null.   *)
(* A parse step yields [ok, v, i]: whether it parsed, the value, and the   *)
(* index after it.  Numbers with a fraction or an exponent, NaN, Infinity  *)
(* and \u, \b, \f escapes occur in no modelled frame and are not parsed.   *)
(***************************************************************************)
Parsed(val, next) == [ok |-> TRUE, v |-> val, i |-> next]

NoParse == [ok |-> FALSE, v |-> PyNone, i |-> 0]

RECURSIVE SkipWs(_, _)
SkipWs(s, i) == IF i <= Len(s) /\ s[i] \in Whitespace THEN SkipWs(s, i + 1) ELSE i

At(s, i) == IF i <= Len(s) THEN s[i] ELSE "EOF"

StartsAt(s, i, word) == i + Len(word) - 1 <= Len(s) /\ SubSeq(s, i, i + Len(word) - 1) = word

IsDigit(c) == \E d \in 1..10 : Digits[d] = c

DigitVal(c) == (CHOOSE d \in 1..10 : Digits[d] = c) - 1

Unescape(c) ==
    CASE c = "n" -> "\n"
      [] c = "t" -> "\t"
      [] c = "r" -> "\r"
      [] OTHER -> c

\* the string whose opening quote precedes index i
RECURSIVE ScanString(_, _, _)
ScanString(s, i, acc) ==
    IF i > Len(s) THEN NoParse
    ELSE IF s[i] = "\"" THEN Parsed(PyStr(acc), i + 1)
    ELSE IF s[i] = "\\"
         THEN IF At(s, i + 1) \in {"\"", "\\", "/", "n", "t", "r"}
              THEN ScanString(s, i + 2, Append(acc, Unescape(s[i + 1])))
              ELSE NoParse
    ELSE IF s[i] \in {"\n", "\t", "\r"} THEN NoParse
    ELSE ScanString(s, i + 1, Append(acc, s[i]))

\* the digits from index i on
RECURSIVE ScanDigits(_, _, _)
ScanDigits(s, i, acc) ==
    IF IsDigit(At(s, i)) THEN ScanDigits(s, i + 1, acc * 10 + DigitVal(s[i])) ELSE Parsed(PyInt(acc), i)

\* the sign applied to the magnitude mag parsed after it
Signed(neg, mag) == IF mag.ok /\ neg THEN Parsed(PyInt(0 - mag.v.v), mag.i) ELSE mag

\* (0|[1-9][0-9]*) at index j
ScanMagnitude(s, j) ==
    IF At(s, j) = "0" THEN Parsed(PyInt(0), j + 1)
    ELSE IF IsDigit(At(s, j)) THEN ScanDigits(s, j, 0)
    ELSE NoParse

\* -?(0|[1-9][0-9]*)
ScanNumber(s, i) ==
    IF At(s, i) = "-" THEN Signed(TRUE, ScanMagnitude(s, i + 1)) ELSE ScanMagnitude(s, i)

RECURSIVE ParseValue(_, _)
RECURSIVE ParseElems(_, _, _)
RECURSIVE ParseMembers(_, _, _)

\* after an element of an array, at index j: a comma and the next element, or the end
ElemsStep(s, acc, j) ==
    IF At(s, j) = "," THEN ParseElems(s, SkipWs(s, j + 1), acc)
    ELSE IF At(s, j) = "]" THEN Parsed(PyList(acc), j + 1)
    ELSE NoParse

\* the array continued with the element e
ElemsNext(s, acc, e) ==
    IF e.ok THEN ElemsStep(s, Append(acc, e.v), SkipWs(s, e.i)) ELSE NoParse

\* the elements of an array, from the element at index i on
ParseElems(s, i, acc) == ElemsNext(s, acc, ParseValue(s, i))

\* after a member of an object, at index j: a comma and the next member, or the end
MembersStep(s, acc, j) ==
    IF At(s, j) = "," THEN ParseMembers(s, SkipWs(s, j + 1), acc)
    ELSE IF At(s, j) = "}" THEN Parsed(PyDict(acc), j + 1)
    ELSE NoParse

\* the object continued with the member key: e
MemberValue(s, acc, key, e) ==
    IF e.ok THEN MembersStep(s, DictSet(acc, key, e.v), SkipWs(s, e.i)) ELSE NoParse

\* the colon at index c, and the value after it
MemberColon(s, acc, key, c) ==
    IF At(s, c) = ":" THEN MemberValue(s, acc, key, ParseValue(s, SkipWs(s, c + 1))) ELSE NoParse

\* the object continued with the key k
MemberKey(s, acc, k) == IF k.ok THEN MemberColon(s, acc, k.v.v, SkipWs(s, k.i)) ELSE NoParse

\* the members of an object, from the key at index i on
ParseMembers(s, i, acc) ==
    IF At(s, i) = "\"" THEN MemberKey(s, acc, ScanString(s, i + 1, <<>>)) ELSE NoParse

\* an object whose brace is passed, at index j
ObjectAt(s, j) ==
    IF At(s, j) = "}" THEN Parsed(PyDict(<<>>), j + 1) ELSE ParseMembers(s, j, <<>>)

\* an array whose bracket is passed, at index j
ArrayAt(s, j) ==
    IF At(s, j) = "]" THEN Parsed(PyList(<<>>), j + 1) ELSE ParseElems(s, j, <<>>)

\* the value at index i, which holds the character c
ValueAt(s, i, c) ==
    CASE c = "\"" -> ScanString(s, i + 1, <<>>)
      [] c = "{" -> ObjectAt(s, SkipWs(s, i + 1))
      [] c = "[" -> ArrayAt(s, SkipWs(s, i + 1))
      [] c = "n" /\ StartsAt(s, i, JSON_NULL) -> Parsed(PyNone, i + 4)
      [] c = "t" /\ StartsAt(s, i, JSON_TRUE) -> Parsed(PyBool(TRUE), i + 4)
      [] c = "f" /\ StartsAt(s, i, JSON_FALSE) -> Parsed(PyBool(FALSE), i + 5)
      [] c = "-" \/ IsDigit(c) -> ScanNumber(s, i)
      [] OTHER -> NoParse

ParseValue(s, i) == ValueAt(s, i, At(s, i))

\* the parse r stands when only whitespace follows it
WholeText(s, r) == IF r.ok /\ SkipWs(s, r.i) = Len(s) + 1 THEN r ELSE NoParse

\* json.loads(s): the value, or JSONDecodeError (ok = FALSE)
Loads(s) == WholeText(s, ParseValue(s, SkipWs(s, 1)))

\* Tests_sw.py:45  a board frame
TXT_BOARD ==
    <<"{", "\"", "b", "o", "a", "r", "d", "\"", ":", " ", "[", "[", "\"", "X", "\"", ",", " ",
      "\"", "\"", ",", " ", "\"", "\"", "]", ",", " ", "[", "\"", "\"", ",", " ", "\"", "O",
      "\"", ",", " ", "\"", "\"", "]", ",", " ", "[", "\"", "\"", ",", " ", "\"", "\"", ",",
      " ", "\"", "\"", "]", "]", "}">>

\* a board frame of a game in play, cells in {" ", "X", "O"} (Tests_hw.py:46-49)
TXT_BOARD_PLAY ==
    <<"{", "\"", "b", "o", "a", "r", "d", "\"", ":", " ", "[", "[", "\"", "X", "\"", ",", " ",
      "\"", "O", "\"", ",", " ", "\"", " ", "\"", "]", ",", " ", "[", "\"", " ", "\"", ",",
      " ", "\"", "X", "\"", ",", " ", "\"", " ", "\"", "]", ",", " ", "[", "\"", "O", "\"",
      ",", " ", "\"", " ", "\"", ",", " ", "\"", " ", "\"", "]", "]", "}">>

\* Tests_sw.py:136  a board frame with two rows only
TXT_BOARD_2ROWS ==
    <<"{", "\"", "b", "o", "a", "r", "d", "\"", ":", " ", "[", "[", "\"", "X", "\"", ",", " ",
      "\"", "O", "\"", ",", " ", "\"", "X", "\"", "]", ",", " ", "[", "\"", "O", "\"", ",",
      " ", "\"", "X", "\"", ",", " ", "\"", "O", "\"", "]", "]", "}">>

\* a board frame whose second row has two cells only
TXT_BOARD_SHORT_ROW ==
    <<"{", "\"", "b", "o", "a", "r", "d", "\"", ":", " ", "[", "[", "\"", "X", "\"", ",",
      " ", "\"", "O", "\"", ",", " ", "\"", "X", "\"", "]", ",", " ", "[", "\"", "O", "\"",
      ",", " ", "\"", "X", "\"", "]", ",", " ", "[", "\"", "X", "\"", ",", " ", "\"", "O",
      "\"", ",", " ", "\"", "X", "\"", "]", "]", "}">>

\* a board frame with four rows of four cells
TXT_BOARD_4X4 ==
    <<"{", "\"", "b", "o", "a", "r", "d", "\"", ":", " ", "[", "[", "\"", "X", "\"", ",",
      " ", "\"", "O", "\"", ",", " ", "\"", "X", "\"", ",", " ", "\"", "O", "\"", "]", ",",
      " ", "[", "\"", "O", "\"", ",", " ", "\"", "X", "\"", ",", " ", "\"", "O", "\"", ",",
      " ", "\"", "X", "\"", "]", ",", " ", "[", "\"", " ", "\"", ",", " ", "\"", " ", "\"",
      ",", " ", "\"", "X", "\"", ",", " ", "\"", "O", "\"", "]", ",", " ", "[", "\"", "O",
      "\"", ",", " ", "\"", "X", "\"", ",", " ", "\"", "O", "\"", ",", " ", "\"", "X",
      "\"", "]", "]", "}">>

\* Tests_hw.py:116-117  a win_status frame
TXT_WIN ==
    <<"{", "\"", "t", "y", "p", "e", "\"", ":", " ", "\"", "w", "i", "n", "_", "s", "t", "a",
      "t", "u", "s", "\"", ",", " ", "\"", "m", "e", "s", "s", "a", "g", "e", "\"", ":", " ",
      "\"", "I", "t", "'", "s", " ", "a", " ", "d", "r", "a", "w", "!", "\"", "}">>

\* Tests_hw.py:41-42  a game_status frame
TXT_STATUS ==
    <<"{", "\"", "t", "y", "p", "e", "\"", ":", " ", "\"", "g", "a", "m", "e", "_", "s", "t",
      "a", "t", "u", "s", "\"", ",", " ", "\"", "m", "e", "s", "s", "a", "g", "e", "\"", ":",
      " ", "\"", "G", "a", "m", "e", " ", "r", "e", "s", "e", "t", ".", "\"", "}">>

\* Tests_sw.py:58  a line that is no JSON
TXT_INVALID ==
    <<"I", "n", "v", "a", "l", "i", "d", " ", "J", "S", "O", "N">>

\* Tests_hw.py:117
TXT_DRAW ==
    <<"I", "t", "'", "s", " ", "a", " ", "d", "r", "a", "w", "!">>

\* Tests_hw.py:42
TXT_RESET ==
    <<"G", "a", "m", "e", " ", "r", "e", "s", "e", "t", ".">>

\* json.dumps of Tests_sw.py:32
TXT_MOVE_1_2 ==
    <<"{", "\"", "c", "o", "m", "m", "a", "n", "d", "\"", ":", " ", "\"", "M", "O", "V", "E",
      "\"", ",", " ", "\"", "r", "o", "w", "\"", ":", " ", "1", ",", " ", "\"", "c", "o", "l",
      "\"", ":", " ", "2", "}">>

(***************************************************************************)
(* Bounds of the model, and the inputs the environment may supply.         *)
(***************************************************************************)
\* open_port calls made by the operator
MaxOpens == 2

\* frames the device sends
MaxFrames == 2

\* port names the operator may select
Ports == {PORT_COM3}

\* exception texts serial.Serial(...) may fail with
OpenErrors == {MSG_PORT_ERROR, MSG_CONNECTED_BUSY}

\* the frames the device may send, as bytes, each ended by a line feed
LINE_BOARD == Encode(TXT_BOARD) \o <<10>>

LINE_BOARD_PLAY == Encode(TXT_BOARD_PLAY) \o <<10>>

LINE_BOARD_2ROWS == Encode(TXT_BOARD_2ROWS) \o <<10>>

LINE_WIN == Encode(TXT_WIN) \o <<10>>

LINE_STATUS == Encode(TXT_STATUS) \o <<10>>

LINE_INVALID == Encode(TXT_INVALID) \o <<10>>

\* <<10>> is an empty line; <<255, 10>> holds the byte 0xFF, which is no UTF-8
DeviceLines ==
    {LINE_BOARD, LINE_BOARD_PLAY, LINE_BOARD_2ROWS, LINE_WIN, LINE_STATUS, LINE_INVALID,
     <<10>>, <<255, 10>>}

\* where a frame may be cut when it reaches the host in two parts: in the
\* middle, or just before its line feed
SplitPoints(line) == {k \in {Len(line) \div 2, Len(line) - 1} : k >= 1}

\* the commands of the GUI (send_move, set_mode, reset_game)
MoveMessage(row, col) ==
    PyDict(<< <<KEY_COMMAND, PyStr(STR_MOVE)>>, <<KEY_ROW, PyInt(row)>>, <<KEY_COL, PyInt(col)>> >>)

ModeMessage(mode) == PyDict(<< <<KEY_COMMAND, PyStr(STR_MODE)>>, <<KEY_MODE, PyInt(mode)>> >>)

ResetMessage == PyDict(<< <<KEY_COMMAND, PyStr(STR_RESET)>> >>)

(***************************************************************************)
(* The state.                                                              *)
(***************************************************************************)
VARIABLES
    ser,           \* uart.ser: 0 for None, else the connection, named by the number
                   \* of the open_port call that made it
    handles,       \* the connections this adapter opened that are still open
    rx,            \* the bytes buffered for reading on the connection ser names
    wire,          \* the rest of a frame the device has sent the first part of
    buttons,       \* the text of the nine board buttons
    output_text,   \* the strings inserted in the output log, in order
    status_label,  \* the text of the status label
    pending,       \* the number of scheduled auto_receive callbacks (root.after)
    modals,        \* the messagebox.showinfo calls started, in order
    opens,         \* the number of open_port calls so far
    frames,        \* the number of frames the device has sent so far
    last           \* what the last step did, as a test double would record it: the
                   \* operation, the values the adapter methods returned, the calls
                   \* made on the port and the widgets, and uart.ser before the step

vars ==
    <<ser, handles, rx, wire, buttons, output_text, status_label, pending, modals, opens,
      frames, last>>

\* no adapter method was called
NoCall == [t |-> "nocall", v |-> <<>>]

\* op: the operation; ret: what open_port or send_message returned; recv: what
\* receive_message returned; reads, writes: the ser.readline and ser.write calls
\* made; payload: the bytes given to ser.write; raised: auto_receive ran its
\* except branch; logged: the output_text.insert calls made; painted: a button
\* text changed; after: the root.after calls made; was: uart.ser before
Observed(op, ret, recv, reads, writes, payload, raised, logged, painted, after, was) ==
    [op |-> op, ret |-> ret, recv |-> recv, reads |-> reads, writes |-> writes,
     payload |-> payload, raised |-> raised, logged |-> logged, painted |-> painted,
     after |-> after, was |-> was, message |-> NoCall, fault |-> <<>>]

\* the same, for a step given the command message and in which the port raised
\* the exception text fault (<<>>: it raised nothing)
Given(message, fault, seen) == [seen EXCEPT !.message = message, !.fault = fault]

\* nothing observed: the state before any operation, or after a device event
Quiet(op) == Observed(op, NoCall, NoCall, 0, 0, <<>>, FALSE, 0, FALSE, 0, 0)

(***************************************************************************)
(* class UARTCommunication                                                 *)
(***************************************************************************)
\* self.ser and self.ser.is_open
IsOpen(s, open) == s # 0 /\ s \in open

\* open_port without Game.py:62: a failed open leaves self.ser as it was
open_port_keeps_ser(s, port, attempt) ==
    IF attempt.ok
    THEN [ser |-> attempt.handle, ret |-> PyStr(STR_CONNECTED_TO \o port)]
    ELSE [ser |-> s, ret |-> PyStr(STR_ERROR \o attempt.msg)]

\* open_port(port) on an adapter whose ser is s: attempt is what
\* serial.Serial(port, 9600, timeout=1) did, [ok, handle] or [ok = FALSE, msg]
open_port(s, port, attempt) ==
    IF attempt.ok
    THEN [ser |-> attempt.handle, ret |-> PyStr(STR_CONNECTED_TO \o port)]
    ELSE [ser |-> 0, ret |-> PyStr(STR_ERROR \o attempt.msg)]

\* Game.py:82 without the line feed: ser.write(json_message.encode())
WriteLine_no_newline(json_message, fault) ==
    [ret |-> IF fault = <<>> THEN PyStr(STR_SENT \o json_message) ELSE PyStr(STR_ERROR \o fault),
     calls |-> <<Encode(json_message)>>]

\* Game.py:81-85: the one ser.write call with json_message and a line feed
WriteLine(json_message, fault) ==
    [ret |-> IF fault = <<>> THEN PyStr(STR_SENT \o json_message) ELSE PyStr(STR_ERROR \o fault),
     calls |-> <<Encode(json_message \o <<"\n">>)>>]

\* send_message without the test of Game.py:79: it writes whatever self.ser is
send_message_unguarded(s, open, message, fault) == WriteLine(Dumps(message), fault)

\* send_message(message) on an adapter whose ser is s; fault is the exception
\* text ser.write raises, or <<>> when it does not raise.  calls holds the
\* payload of each ser.write call made.
send_message(s, open, message, fault) ==
    IF IsOpen(s, open)
    THEN WriteLine(Dumps(message), fault)
    ELSE [ret |-> PyStr(STR_PORT_NOT_OPENED), calls |-> <<>>]

\* the index of the first line feed of buf, or 0
FirstLF(buf) ==
    IF \E n \in 1..Len(buf) : buf[n] = 10
    THEN CHOOSE n \in 1..Len(buf) : buf[n] = 10 /\ \A m \in 1..(n - 1) : buf[m] # 10
    ELSE 0

\* the first n bytes of buf read, the rest left
ReadTo(buf, n) == [line |-> SubSeq(buf, 1, n), rest |-> SubSeq(buf, n + 1, Len(buf))]

\* the number of bytes readline takes, given the index lf of the first line feed
LineLen(buf, lf) == IF lf = 0 THEN Len(buf) ELSE lf

\* Game.py:100 with ser.read_all() for ser.readline(): every buffered byte
ReadLine_all(buf) == ReadTo(buf, Len(buf))

\* ser.readline() with timeout=1 on a buffer that holds bytes: the bytes up to
\* and including the first line feed, or all of them when the timeout ends the read
ReadLine(buf) == ReadTo(buf, LineLen(buf, FirstLF(buf)))

\* Game.py:104-105 returning None: the JSONDecodeError is swallowed
LoadsOr_none(j) == j.v

\* Game.py:102-105: json.loads gave j
LoadsOr(j) == IF j.ok THEN j.v ELSE PyStr(STR_INVALID_JSON)

\* Game.py:101-103, 108: the stripped text
ParseText(response) ==
    IF Len(response) > 0 THEN LoadsOr(Loads(response)) ELSE PyStr(STR_PORT_NOT_OPENED)

\* Game.py:104-107 as one except branch: every exception is answered with
\* "Error: Invalid JSON received"
ParseLine_one_error(d) ==
    IF d.ok THEN ParseText(Strip(d.v.v)) ELSE PyStr(STR_INVALID_JSON)

\* Game.py:100, 106-107: decode() gave d
ParseLine(d) == IF d.ok THEN ParseText(Strip(d.v.v)) ELSE PyStr(STR_ERROR \o d.msg)

\* Game.py:100-107: readline() gave r
ReadResult(r) == [ret |-> ParseLine(Decode(r.line)), rx |-> r.rest, reads |-> 1]

\* receive_message() on an adapter whose ser is s and whose connection buffers buf
receive_message(s, open, buf) ==
    IF IsOpen(s, open)
    THEN IF Len(buf) > 0
         THEN ReadResult(ReadLine(buf))
         ELSE [ret |-> PyStr(STR_PORT_NOT_OPENED), rx |-> buf, reads |-> 0]
    ELSE [ret |-> PyStr(STR_PORT_NOT_OPENED), rx |-> buf, reads |-> 0]

(***************************************************************************)
(* The GUI functions.                                                      *)
(***************************************************************************)
\* button.config(text=x) on a button that shows old: tkinter drops an option
\* whose value is None, so the text stays; Tk shows a str as it is, an int in
\* decimal, and a bool as "1" or "0".  (A cell that is a list or a dict occurs
\* in no modelled frame and has no case here.)
ConfigText(old, x) ==
    CASE x.t = "str" -> x.v
      [] x.t = "int" -> IntToStr(x.v)
      [] x.t = "None" -> old
      [] x.t = "bool" -> IF x.v THEN <<"1">> ELSE <<"0">>

\* update_game_board(board, buttons) from the cell numbered k (row k \div 3,
\* column k % 3) on: the buttons as the loop leaves them, and the exception
\* text when a subscript raised
RECURSIVE update_cells(_, _, _)

\* Game.py:120 with the indices swapped: buttons[j][i].config(text=board[i][j])
CellSet_transposed(board, btns, k, cell) ==
    IF cell.ok
    THEN update_cells(board, [btns EXCEPT ![k % 3][k \div 3] = ConfigText(@, cell.v)], k + 1)
    ELSE [buttons |-> btns, raised |-> TRUE, msg |-> cell.msg]

\* buttons[i][j].config(text=cell), then the next cell
CellSet(board, btns, k, cell) ==
    IF cell.ok
    THEN update_cells(board, [btns EXCEPT ![k \div 3][k % 3] = ConfigText(@, cell.v)], k + 1)
    ELSE [buttons |-> btns, raised |-> TRUE, msg |-> cell.msg]

\* board[i] gave row: board[i][j]
CellRow(board, btns, k, row) ==
    IF row.ok
    THEN CellSet(board, btns, k, Subscript(row.v, k % 3))
    ELSE [buttons |-> btns, raised |-> TRUE, msg |-> row.msg]

update_cells(board, btns, k) ==
    IF k = 9
    THEN [buttons |-> btns, raised |-> FALSE, msg |-> <<>>]
    ELSE CellRow(board, btns, k, Subscript(board, k \div 3))

update_game_board(board, btns) == update_cells(board, btns, 0)

\* s contains sub ("sub in s")
Contains(s, sub) ==
    \E n \in 1..(Len(s) - Len(sub) + 1) : SubSeq(s, n, n + Len(sub) - 1) = sub

\* what a poll tick leaves: the buffer, the widgets, what receive_message
\* returned, the readline calls, whether the except branch ran, the exception
\* text, and the root.after calls
Tock(buf, btns, log, shown, recv, reads, raised, msg, after) ==
    [rx |-> buf, buttons |-> btns, log |-> log, modals |-> shown, recv |-> recv,
     reads |-> reads, raised |-> raised, msg |-> msg, after |-> after]

\* Game.py:166: update_game_board returned u
Painted(t, u) == [t EXCEPT !.buttons = u.buttons, !.raised = u.raised, !.msg = u.msg]

\* Game.py:165-168: the board, or the message as a log line
ShowBoardOrStatus(response, t) ==
    IF DictHas(response, KEY_BOARD)
    THEN Painted(t, update_game_board(DictAt(response, KEY_BOARD), t.buttons))
    ELSE IF DictHas(response, KEY_MESSAGE)
    THEN [t EXCEPT !.log = Append(@, STR_GAME_STATUS
                                     \o Format(DictAt(response, KEY_MESSAGE)) \o <<"\n">>)]
    ELSE [t EXCEPT !.raised = TRUE, !.msg = <<"'">> \o KEY_MESSAGE \o <<"'">>]

\* Game.py:170 without the test of the type: every dict is notified
ShowWin_any_type(response, t) ==
    IF ~t.raised
    THEN [t EXCEPT !.modals = Append(@, <<STR_WIN_TITLE, DictGet(response, KEY_MESSAGE)>>)]
    ELSE t

\* Game.py:170-173: the win_status notification, unless an exception came first
ShowWin(response, t) ==
    IF ~t.raised /\ PyEq(DictGet(response, KEY_TYPE), PyStr(STR_WIN_STATUS))
    THEN [t EXCEPT !.modals = Append(@, <<STR_WIN_TITLE, DictGet(response, KEY_MESSAGE)>>)]
    ELSE t

\* Game.py:178-179 as "except Exception: pass": nothing is logged
Except_silent(t) == t

\* Game.py:178-179: the except branch logs the exception
Except(t) ==
    IF t.raised THEN [t EXCEPT !.log = Append(@, STR_ERROR \o t.msg \o <<"\n">>)] ELSE t

\* Game.py:163 without the comparison with "Port not opened"
Dispatch_no_filter(response, t) ==
    IF Truthy(response)
    THEN IF response.t = "dict"
         THEN ShowWin(response, ShowBoardOrStatus(response, t))
         ELSE [t EXCEPT !.log = Append(@, STR_RECEIVED \o Format(response) \o <<"\n">>)]
    ELSE t

\* Game.py:163-177: the response is dispatched
Dispatch(response, t) ==
    IF Truthy(response) /\ ~PyEq(response, PyStr(STR_PORT_NOT_OPENED))
    THEN IF response.t = "dict"
         THEN ShowWin(response, ShowBoardOrStatus(response, t))
         ELSE [t EXCEPT !.log = Append(@, STR_RECEIVED \o Format(response) \o <<"\n">>)]
    ELSE t

\* Game.py:162: receive_message returned r
Received(r, btns, log, shown) ==
    Dispatch(r.ret, Tock(r.rx, btns, log, shown, r.ret, r.reads, FALSE, <<>>, 0))

\* root.after(100, ...) as the last statement of the try block: an exception
\* in the dispatch skips it
Rearm_in_try(t) == IF t.raised THEN t ELSE [t EXCEPT !.after = @ + 1]

\* Game.py:180: root.after(100, ...)
Rearm(t) == [t EXCEPT !.after = @ + 1]

\* auto_receive without the test of Game.py:161: it calls receive_message
\* whatever self.ser is
auto_receive_unguarded(s, open, buf, btns, log, shown) ==
    Rearm(Except(Received(receive_message(s, open, buf), btns, log, shown)))

\* auto_receive(uart, buttons, output_text, root): one poll tick
auto_receive(s, open, buf, btns, log, shown) ==
    IF IsOpen(s, open)
    THEN Rearm(Except(Received(receive_message(s, open, buf), btns, log, shown)))
    ELSE Rearm(Tock(buf, btns, log, shown, NoCall, 0, FALSE, <<>>, 0))

(***************************************************************************)
(* The initial state: start_gui before any event.                          *)
(***************************************************************************)
Init ==
    /\ ser = 0
    /\ handles = {}
    /\ rx = <<>>
    /\ wire = <<>>
    /\ buttons = [i \in 0..2 |-> [j \in 0..2 |-> STR_BLANK]]
    /\ output_text = <<>>
    /\ status_label = STR_NOT_CONNECTED
    /\ pending = 0
    /\ modals = <<>>
    /\ opens = 0
    /\ frames = 0
    /\ last = Quiet("start")

(***************************************************************************)
(* The operator's actions.                                                 *)
(***************************************************************************)
\* the connections left open when the adapter stops referring to connection
\* old: nothing closes it, so it stays open unless the runtime finalises the
\* unreferenced object (released)
Dropped(open, old, released) == IF released THEN open \ {old} ELSE open

\* Game.py:208-212: open_port returned o, leaving the connections open; a is
\* the poll tick Game.py:210 runs
OpenPortThen(o, open, a, fault) ==
    /\ opens < MaxOpens
    /\ opens' = opens + 1
    /\ ser' = o.ser
    /\ handles' = open
    /\ status_label' = o.ret.v
    /\ IF Contains(o.ret.v, STR_CONNECTED)
       THEN /\ rx' = a.rx
            /\ buttons' = a.buttons
            /\ output_text' = a.log
            /\ modals' = a.modals
            /\ pending' = pending + a.after
            /\ last' = Given(NoCall, fault,
                              Observed("open", o.ret, a.recv, a.reads, 0, <<>>, a.raised,
                                       Len(a.log) - Len(output_text), a.buttons # buttons,
                                       a.after, ser))
       ELSE /\ rx' = <<>>
            /\ output_text' = Append(output_text, STR_FAILED_TO_CONNECT \o o.ret.v \o <<"\n">>)
            /\ last' = Given(NoCall, fault,
                              Observed("open", o.ret, NoCall, 0, 0, <<>>, FALSE, 1, FALSE, 0, ser))
            /\ UNCHANGED <<buttons, modals, pending>>
    /\ UNCHANGED <<wire, frames>>

\* the new connection starts with nothing buffered
OpenPortOn(o, open, fault) ==
    OpenPortThen(o, open, auto_receive(o.ser, open, <<>>, buttons, output_text, modals), fault)

\* open_port_callback, with the outcome of serial.Serial(...)
OpenPortWith(port, attempt, released) ==
    OpenPortOn(open_port(ser, port, attempt),
               Dropped(handles, ser, released) \cup (IF attempt.ok THEN {attempt.handle} ELSE {}),
               attempt.msg)

OpenPortOk ==
    \E port \in Ports, released \in BOOLEAN :
        /\ (released => ser # 0)
        /\ OpenPortWith(port, [ok |-> TRUE, handle |-> opens + 1, msg |-> <<>>], released)

OpenPortFail ==
    \E port \in Ports, msg \in OpenErrors, released \in BOOLEAN :
        /\ (released => ser # 0)
        /\ OpenPortWith(port, [ok |-> FALSE, handle |-> 0, msg |-> msg], released)

\* a command callback: the message goes to send_message and the result is dropped
Sent(op, message, fault, r) ==
    last' = Given(message, IF Len(r.calls) > 0 THEN fault ELSE <<>>,
                  Observed(op, r.ret, NoCall, 0, Len(r.calls),
                           IF Len(r.calls) > 0 THEN r.calls[1] ELSE <<>>, FALSE, 0, FALSE, 0, ser))

SendWith(op, message, fault) ==
    Sent(op, message, fault, send_message(ser, handles, message, fault))

WriteFaults == {<<>>, MSG_WRITE_FAILED}

\* send_move(uart, row, col): a board button
SendMove ==
    \E row \in 0..2, col \in 0..2, fault \in WriteFaults :
        /\ SendWith("send_move", MoveMessage(row, col), fault)
        /\ UNCHANGED <<ser, handles, rx, wire, buttons, output_text, status_label, pending,
                       modals, opens, frames>>

\* set_mode_callback: the Set Mode button
SetMode ==
    \E mode \in 0..2, fault \in WriteFaults :
        /\ SendWith("set_mode", ModeMessage(mode), fault)
        /\ status_label' = STR_GAME_MODE_SET \o <<MODE_USER_USER, MODE_USER_AI, MODE_AI_AI>>[mode + 1]
        /\ UNCHANGED <<ser, handles, rx, wire, buttons, output_text, pending, modals, opens,
                       frames>>

\* reset_game(uart): the Reset button
ResetGame ==
    \E fault \in WriteFaults :
        /\ SendWith("reset_game", ResetMessage, fault)
        /\ UNCHANGED <<ser, handles, rx, wire, buttons, output_text, status_label, pending,
                       modals, opens, frames>>

(***************************************************************************)
(* The event loop runs a scheduled auto_receive.                           *)
(***************************************************************************)
Ticked(a) ==
    /\ pending > 0
    /\ rx' = a.rx
    /\ buttons' = a.buttons
    /\ output_text' = a.log
    /\ modals' = a.modals
    /\ pending' = (pending - 1) + a.after
    /\ last' = Observed("tick", NoCall, a.recv, a.reads, 0, <<>>, a.raised,
                         Len(a.log) - Len(output_text), a.buttons # buttons, a.after, ser)
    /\ UNCHANGED <<ser, handles, wire, status_label, opens, frames>>

Tick == Ticked(auto_receive(ser, handles, rx, buttons, output_text, modals))

(***************************************************************************)
(* The device.                                                             *)
(***************************************************************************)
\* the device sends a frame; its first k bytes reach the host now
Arrivals ==
    {[now |-> SubSeq(line, 1, k), later |-> SubSeq(line, k + 1, Len(line))] :
        <<line, k>> \in {<<l, n>> \in DeviceLines \X (1..64) :
                            n = Len(l) \/ n \in SplitPoints(l)}}

DeviceSend ==
    \E a \in Arrivals :
        /\ frames < MaxFrames
        /\ ser # 0
        /\ wire = <<>>
        /\ frames' = frames + 1
        /\ rx' = rx \o a.now
        /\ wire' = a.later
        /\ last' = Quiet("device")
        /\ UNCHANGED <<ser, handles, buttons, output_text, status_label, pending, modals,
                       opens>>

\* the board frames the device may send: a grid of 3x3, and grids with fewer
\* and with more rows or cells than update_game_board reads
BoardArrivals ==
    UNION {{[now |-> SubSeq(l, 1, k), later |-> SubSeq(l, k + 1, Len(l))] :
               k \in SplitPoints(l) \cup {Len(l)}} :
           l \in {LINE_BOARD_PLAY, LINE_BOARD_2ROWS,
                  Encode(TXT_BOARD_SHORT_ROW) \o <<10>>,
                  Encode(TXT_BOARD_4X4) \o <<10>>}}

\* the device sends a board frame; its first bytes reach the host now
DeviceSendBoard ==
    \E a \in BoardArrivals :
        /\ frames < MaxFrames
        /\ ser # 0
        /\ wire = <<>>
        /\ frames' = frames + 1
        /\ rx' = rx \o a.now
        /\ wire' = a.later
        /\ last' = Quiet("device")
        /\ UNCHANGED <<ser, handles, buttons, output_text, status_label, pending, modals,
                       opens>>

\* the rest of the frame reaches the host (it is lost when no connection is open)
DeviceRest ==
    /\ wire # <<>>
    /\ rx' = IF ser # 0 THEN rx \o wire ELSE rx
    /\ wire' = <<>>
    /\ last' = Quiet("device")
    /\ UNCHANGED <<ser, handles, buttons, output_text, status_label, pending, modals, opens,
                   frames>>

Next ==
    \/ OpenPortOk
    \/ OpenPortFail
    \/ SendMove
    \/ SetMode
    \/ ResetGame
    \/ Tick
    \/ DeviceSend
    \/ DeviceRest

Spec == Init /\ [][Next]_vars

\* the poll side alone: the port, the device and the poll loop
NextPoll ==
    \/ OpenPortOk
    \/ OpenPortFail
    \/ Tick
    \/ DeviceSend
    \/ DeviceRest

SpecPoll == Init /\ [][NextPoll]_vars

\* the command side alone: the port and the three command callbacks
NextSend ==
    \/ OpenPortOk
    \/ OpenPortFail
    \/ SendMove
    \/ SetMode
    \/ ResetGame

SpecSend == Init /\ [][NextSend]_vars

\* the poll side with the Reset button: ticks interleaved with a command
NextPollReset ==
    \/ OpenPortOk
    \/ OpenPortFail
    \/ ResetGame
    \/ Tick
    \/ DeviceSend
    \/ DeviceRest

SpecPollReset == Init /\ [][NextPollReset]_vars

\* the poll side with a device that sends board frames of every shape
NextBoards ==
    \/ OpenPortOk
    \/ OpenPortFail
    \/ Tick
    \/ DeviceSendBoard
    \/ DeviceRest

SpecBoards == Init /\ [][NextBoards]_vars

(***************************************************************************)
(* Expected values, written out from the tests.                            *)
(***************************************************************************)
\* Tests_sw.py:25  the result of a failed open_port
TXT_ERROR_PORT_ERROR ==
    <<"E", "r", "r", "o", "r", ":", " ", "P", "o", "r", "t", " ", "e", "r", "r", "o", "r">>

\* Tests_sw.py:32  the message, as the bytes of its JSON text and a line feed
BYTES_MOVE_1_2 ==
    <<123, 34, 99, 111, 109, 109, 97, 110, 100, 34, 58, 32, 34, 77, 79, 86, 69, 34, 44, 32,
      34, 114, 111, 119, 34, 58, 32, 49, 44, 32, 34, 99, 111, 108, 34, 58, 32, 50, 125, 10>>

\* Tests_sw.py:47  the grid of the board frame of Tests_sw.py:45
GRID_BOARD ==
    <<<<<<"X">>, <<>>, <<>>>>,
      <<<<>>, <<"O">>, <<>>>>,
      <<<<>>, <<>>, <<>>>>>>

\* the grid of the board frame TXT_BOARD_PLAY
GRID_BOARD_PLAY ==
    <<<<<<"X">>, <<"O">>, <<" ">>>>,
      <<<<" ">>, <<"X">>, <<" ">>>>,
      <<<<"O">>, <<" ">>, <<" ">>>>>>

\* Tests_sw.py:47  the message receive_message returns for a board frame of grid g
BoardMessage(g) ==
    PyDict(<< <<KEY_BOARD,
               PyList([i \in 1..3 |-> PyList([j \in 1..3 |-> PyStr(g[i][j])])])>> >>)

\* the operations that send a command
SendOps == {"send_move", "set_mode", "reset_game"}

(***************************************************************************)
(* The claims.                                                             *)
(***************************************************************************)
\* C1: every poll tick, whatever its outcome (a message dispatched, a receive
\* error, nothing received, a closed connection, an exception raised in the
\* dispatch), makes one root.after call, and so does the tick a successful
\* open runs; once a tick is scheduled, a tick stays scheduled after every
\* step, whatever open, receive or device event the step is.
C1_PollLoopNeverStops ==
    [][/\ (last'.op = "tick" => last'.after = 1)
       /\ ((last'.op = "open" /\ ser' # 0) => last'.after = 1)
       /\ (pending >= 1 => pending' >= 1)]_vars

\* a tick whose dispatch raised (the except branch ran) has re-armed
C1_Witness == last.op = "tick" /\ last.raised /\ last.after = 1 /\ pending >= 1

\* C2: after an open_port call in which serial.Serial raised, the result is
\* "Error: " and the exception text, and ser is None, whether ser was None or
\* a connection before the call.
C2_FailedOpenLeavesClosed ==
    (last.op = "open" /\ last.fault # <<>>) =>
        /\ ser = 0
        /\ ~IsOpen(ser, handles)
        /\ last.ret = PyStr(STR_ERROR \o last.fault)
        /\ (last.fault = MSG_PORT_ERROR => last.ret = PyStr(TXT_ERROR_PORT_ERROR))

\* an open failed on an adapter that held a connection
C2_Witness == last.op = "open" /\ last.fault = MSG_PORT_ERROR /\ last.was # 0 /\ ser = 0

\* C3: a command sent while ser is None returns "Port not opened", makes no
\* ser.write call, and leaves ser, the open connections and their buffer as
\* they were.
C3_SendWhileClosed ==
    [][(last'.op \in SendOps /\ ser = 0) =>
          /\ last'.ret = PyStr(STR_PORT_NOT_OPENED)
          /\ last'.writes = 0
          /\ last'.payload = <<>>
          /\ ser' = 0
          /\ UNCHANGED <<handles, rx>>]_vars

\* a command was sent after an open that failed
C3_Witness ==
    /\ last.op = "send_move"
    /\ last.was = 0
    /\ opens >= 1
    /\ last.ret = PyStr(STR_PORT_NOT_OPENED)
    /\ last.writes = 0

\* C4: receive_message on an open connection with no byte buffered returns
\* None and calls no readline.
C4_EmptyBufferReturnsNone ==
    [][(last'.op = "tick" /\ pending > 0 /\ IsOpen(ser, handles) /\ rx = <<>>) =>
          (last'.recv = PyNone /\ last'.reads = 0)]_vars

\* C5: when the line read from an open connection decodes to a text that is
\* not empty and is no JSON text, receive_message returns the string "Error:
\* Invalid JSON received", and the tick appends "Received: " with that string
\* to the log, changes no button, shows no notification, raises nothing and
\* re-arms.
C5_InvalidJsonLoggedAndLoopGoesOn ==
    [][(/\ last'.op = "tick"
        /\ pending > 0
        /\ IsOpen(ser, handles)
        /\ rx # <<>>
        /\ LET d == Decode(ReadLine(rx).line)
           IN  d.ok /\ Strip(d.v.v) # <<>> /\ ~Loads(Strip(d.v.v)).ok) =>
          /\ last'.recv = PyStr(STR_INVALID_JSON)
          /\ last'.reads = 1
          /\ output_text' = Append(output_text, STR_RECEIVED \o STR_INVALID_JSON \o <<"\n">>)
          /\ UNCHANGED <<buttons, modals>>
          /\ ~last'.raised
          /\ last'.after = 1
          /\ pending' >= 1]_vars

\* a line that is no JSON text was received, and logged
C5_Witness ==
    /\ last.op = "tick"
    /\ last.recv = PyStr(STR_INVALID_JSON)
    /\ last.logged = 1
    /\ ~last.painted
    /\ frames = 1
    /\ wire = <<>>
    /\ rx = <<>>
    /\ output_text # <<>>
    /\ output_text[Len(output_text)] = STR_RECEIVED \o STR_INVALID_JSON \o <<"\n">>
    /\ pending >= 1

\* C6: when the buffer of an open connection starts with the line of a board
\* frame, receive_message returns the message whose board is the grid of the
\* frame, and after the tick each button (i, j) shows cell (i, j) of that
\* grid; the log and the notifications are as before.
C6_BoardFrameRendered ==
    [][\A frame \in {<<LINE_BOARD, GRID_BOARD>>, <<LINE_BOARD_PLAY, GRID_BOARD_PLAY>>} :
          LET line == frame[1]
              g == frame[2]
          IN  (/\ last'.op = "tick"
               /\ pending > 0
               /\ IsOpen(ser, handles)
               /\ Len(rx) >= Len(line)
               /\ SubSeq(rx, 1, Len(line)) = line) =>
                  /\ last'.recv = BoardMessage(g)
                  /\ \A i \in 0..2, j \in 0..2 : buttons'[i][j] = g[i + 1][j + 1]
                  /\ UNCHANGED <<output_text, modals>>
                  /\ ~last'.raised]_vars

\* the board frame of a game in play was received and is on the buttons
C6_Witness ==
    /\ last.op = "tick"
    /\ last.recv = BoardMessage(GRID_BOARD_PLAY)
    /\ last.painted
    /\ \A i \in 0..2, j \in 0..2 : buttons[i][j] = GRID_BOARD_PLAY[i + 1][j + 1]

\* C7: a command sent on an open connection makes one ser.write call, whose
\* payload is the JSON text of the command, with no line feed in it, and one
\* line feed after it; for MOVE with row 1 and col 2 the payload is the bytes of
\* {"command": "MOVE", "row": 1, "col": 2} and a line feed; nothing is read;
\* the result is "Sent: " and the JSON text when the write does not raise, and
\* "Error: " and the exception text when it does.
C7_SendWritesOneLine ==
    (last.op \in SendOps /\ last.was # 0) =>
        /\ last.writes = 1
        /\ last.payload = Encode(Dumps(last.message)) \o <<10>>
        /\ \A n \in 1..(Len(last.payload) - 1) : last.payload[n] # 10
        /\ (last.message = MoveMessage(1, 2) => last.payload = BYTES_MOVE_1_2)
        /\ last.reads = 0
        /\ last.recv = NoCall
        /\ (last.fault = <<>> => last.ret = PyStr(STR_SENT \o Dumps(last.message)))
        /\ (last.fault # <<>> => last.ret = PyStr(STR_ERROR \o last.fault))

\* MOVE with row 1 and col 2 was written to an open connection
C7_Witness ==
    /\ last.op = "send_move"
    /\ last.was # 0
    /\ last.message = MoveMessage(1, 2)
    /\ last.fault = <<>>
    /\ last.payload = BYTES_MOVE_1_2
    /\ last.ret = PyStr(STR_SENT \o TXT_MOVE_1_2)

\* C8: a command of the GUI that is not written to the device (sent while ser
\* is None), or whose write raises, appends a line to the output log.
C8_FailedSendIsLogged ==
    [][(last'.op \in SendOps /\ (last'.writes = 0 \/ last'.fault # <<>>)) =>
          Len(output_text') = Len(output_text) + 1]_vars

\* C9: a tick that finds ser None calls neither receive_message nor readline,
\* leaves the buttons, the log, the notifications and the buffer as they were,
\* raises nothing, and makes its root.after call.
C9_ClosedTickIsNoOp ==
    [][(last'.op = "tick" /\ pending > 0 /\ ~IsOpen(ser, handles)) =>
          /\ last'.recv = NoCall
          /\ last'.reads = 0
          /\ ~last'.raised
          /\ last'.logged = 0
          /\ ~last'.painted
          /\ UNCHANGED <<buttons, output_text, modals, rx, ser, handles>>
          /\ last'.after = 1
          /\ pending' >= 1]_vars

\* a scheduled tick ran after a failed re-open had reset ser to None
C9_Witness ==
    /\ last.op = "tick"
    /\ last.was = 0
    /\ ser = 0
    /\ opens >= 2
    /\ last.recv = NoCall
    /\ last.after = 1
    /\ pending >= 1

\* C10: after any sequence of open_port calls, at most one connection the
\* adapter opened is open.
C10_AtMostOneOpenConnection == Cardinality(handles) <= 1

\* C11: a tick that receives the win_status frame with the text "It's a draw!"
\* starts one messagebox.showinfo("Win Status", "It's a draw!") and appends
\* the line "Game status: It's a draw!" to the log; a tick starts at most one
\* notification, and only for a dict whose type is "win_status"; no other
\* step starts one.
C11_WinStatusNotifiedOnce ==
    [][/\ (/\ last'.op = "tick"
           /\ pending > 0
           /\ IsOpen(ser, handles)
           /\ Len(rx) >= Len(LINE_WIN)
           /\ SubSeq(rx, 1, Len(LINE_WIN)) = LINE_WIN) =>
             /\ modals' = Append(modals, <<STR_WIN_TITLE, PyStr(TXT_DRAW)>>)
             /\ output_text' = Append(output_text, STR_GAME_STATUS \o TXT_DRAW \o <<"\n">>)
             /\ UNCHANGED buttons
       /\ (last'.op = "tick" /\ modals' # modals) =>
             /\ Len(modals') = Len(modals) + 1
             /\ last'.recv.t = "dict"
             /\ DictGet(last'.recv, KEY_TYPE) = PyStr(STR_WIN_STATUS)
       /\ (last'.op # "tick" => modals' = modals)]_vars

\* the win_status frame was received: one notification and one log line
C11_Witness ==
    /\ last.op = "tick"
    /\ last.recv.t = "dict"
    /\ modals = << <<STR_WIN_TITLE, PyStr(TXT_DRAW)>> >>
    /\ last.logged = 1
    /\ output_text[Len(output_text)] = STR_GAME_STATUS \o TXT_DRAW \o <<"\n">>

\* C12: when a frame reaches the host in two parts and a tick runs between
\* them, the tick that reads the first part (bytes with no line feed, the
\* rest still on the wire) dispatches no message: receive_message returns a
\* string, never a parsed dict, and no button and no notification changes.
C12_FragmentNeverDispatched ==
    [][(/\ last'.op = "tick"
        /\ pending > 0
        /\ IsOpen(ser, handles)
        /\ wire # <<>>
        /\ rx # <<>>
        /\ FirstLF(rx) = 0) =>
          /\ last'.recv.t = "str"
          /\ UNCHANGED <<buttons, modals>>]_vars

\* C13: for every MOVE (row, col in 0..2), MODE (mode in 0..2) and RESET
\* command, the bytes send_message wrote, buffered on an open connection and
\* read by receive_message, give back a dict equal to the command, and leave
\* nothing buffered.
C13_CommandRoundTrip ==
    (last.op \in SendOps /\ last.writes = 1) =>
        /\ receive_message(last.was, {last.was}, last.payload).ret = last.message
        /\ receive_message(last.was, {last.was}, last.payload).rx = <<>>

\* the MODE command with mode 2 was written, and reads back as itself
C13_Witness ==
    /\ last.op = "set_mode"
    /\ last.writes = 1
    /\ last.message = ModeMessage(2)
    /\ Loads(Strip(Decode(last.payload).v.v)).v = ModeMessage(2)

\* C14: a tick on an open connection that has no byte buffered, or whose line
\* is a line feed alone (empty after strip), changes no button, appends
\* nothing to the log, starts no notification and raises nothing; it reads
\* nothing in the first case and the one line in the second.
C14_NothingReceivedNothingShown ==
    [][(/\ last'.op = "tick"
        /\ pending > 0
        /\ IsOpen(ser, handles)
        /\ (rx = <<>> \/ rx[1] = 10)) =>
          /\ UNCHANGED <<buttons, output_text, modals>>
          /\ ~last'.raised
          /\ last'.logged = 0
          /\ ~last'.painted
          /\ (rx = <<>> => (rx' = rx /\ last'.reads = 0))
          /\ (rx # <<>> => (rx' = Tail(rx) /\ last'.reads = 1))]_vars

\* an empty line was read and nothing was shown
C14_Witness ==
    /\ last.op = "tick"
    /\ last.was # 0
    /\ last.reads = 1
    /\ last.recv = PyStr(STR_PORT_NOT_OPENED)
    /\ last.logged = 0
    /\ ~last.painted
    /\ output_text = <<>>
    /\ frames = 1
    /\ wire = <<>>

\* Game.py:179  the log line of the IndexError update_game_board raises on a
\* board with fewer than three rows
TXT_ERROR_LIST_INDEX_LINE ==
    <<"E", "r", "r", "o", "r", ":", " ", "l", "i", "s", "t", " ", "i", "n", "d", "e", "x",
      " ", "o", "u", "t", " ", "o", "f", " ", "r", "a", "n", "g", "e", "\n">>

\* C15: a tick that receives a JSON object whose board is not a grid of 3x3
\* (not a list of three lists of three cells) appends one line that starts
\* with "Error: " to the log, and makes its root.after call: a tick stays
\* scheduled.
C15_BadBoardLoggedAndLoopGoesOn ==
    [][(/\ last'.op = "tick"
        /\ last'.recv.t = "dict"
        /\ DictHas(last'.recv, KEY_BOARD)
        /\ LET b == DictAt(last'.recv, KEY_BOARD)
           IN  ~(/\ b.t = "list"
                 /\ Len(b.v) = 3
                 /\ \A i \in 1..3 : b.v[i].t = "list" /\ Len(b.v[i].v) = 3)) =>
          /\ Len(output_text') = Len(output_text) + 1
          /\ SubSeq(output_text'[Len(output_text')], 1, Len(STR_ERROR)) = STR_ERROR
          /\ last'.after = 1
          /\ pending' >= 1]_vars

\* C15, as the code has it: a tick that receives a JSON object whose board is
\* a list of lists of strings.  When the board has fewer than three rows, or
\* one of its first three rows has fewer than three cells, the tick appends
\* the line "Error: list index out of range" to the log and starts no
\* notification.  When the first three rows hold three cells or more each,
\* whatever else the board holds, the tick raises nothing, appends nothing to
\* the log, and each button (i, j) shows cell (i, j).  In both cases the tick
\* makes its root.after call: a tick stays scheduled.
C15_ShortBoardLoggedAndLoopGoesOn ==
    [][(/\ last'.op = "tick"
        /\ last'.recv.t = "dict"
        /\ DictHas(last'.recv, KEY_BOARD)
        /\ LET b == DictAt(last'.recv, KEY_BOARD)
           IN  /\ b.t = "list"
               /\ \A i \in 1..Len(b.v) :
                     /\ b.v[i].t = "list"
                     /\ \A j \in 1..Len(b.v[i].v) : b.v[i].v[j].t = "str") =>
          LET b == DictAt(last'.recv, KEY_BOARD)
          IN  /\ last'.after = 1
              /\ pending' >= 1
              /\ IF Len(b.v) < 3 \/ \E i \in 1..3 : Len(b.v[i].v) < 3
                 THEN /\ last'.raised
                      /\ output_text' = Append(output_text, TXT_ERROR_LIST_INDEX_LINE)
                      /\ UNCHANGED modals
                 ELSE /\ ~last'.raised
                      /\ output_text' = output_text
                      /\ \A i \in 0..2, j \in 0..2 :
                            buttons'[i][j] = b.v[i + 1].v[j + 1].v]_vars

\* a board of three rows, one of them short, was received and the error is
\* the last line of the log
C15_Witness ==
    /\ last.op = "tick"
    /\ last.recv.t = "dict"
    /\ DictHas(last.recv, KEY_BOARD)
    /\ Len(DictAt(last.recv, KEY_BOARD).v) = 3
    /\ last.raised
    /\ last.logged = 1
    /\ output_text[Len(output_text)] = TXT_ERROR_LIST_INDEX_LINE
    /\ pending >= 1

\* Game.py:107  the result of receive_message for a line that starts with the
\* byte 0xFF
TXT_ERROR_UTF8 ==
    <<"E", "r", "r", "o", "r", ":", " ", "'", "u", "t", "f", "-", "8", "'", " ", "c", "o",
      "d", "e", "c", " ", "c", "a", "n", "'", "t", " ", "d", "e", "c", "o", "d", "e", " ",
      "b", "y", "t", "e", " ", "0", "x", "f", "f", " ", "i", "n", " ", "p", "o", "s", "i",
      "t", "i", "o", "n", " ", "0", ":", " ", "i", "n", "v", "a", "l", "i", "d", " ", "s",
      "t", "a", "r", "t", " ", "b", "y", "t", "e">>

\* C16: when the line read from an open connection starts with the byte 0xFF,
\* which is no UTF-8, receive_message returns the string "Error: " with the
\* text of the UnicodeDecodeError, which is not "Error: Invalid JSON
\* received" and no dict; the tick logs it as "Received: ...", changes no
\* button, raises nothing, leaves ser and the connection open, and re-arms.
C16_BadEncodingIsItsOwnError ==
    [][(/\ last'.op = "tick"
        /\ pending > 0
        /\ IsOpen(ser, handles)
        /\ rx # <<>>
        /\ rx[1] = 255) =>
          /\ last'.recv = PyStr(TXT_ERROR_UTF8)
          /\ last'.recv # PyStr(STR_INVALID_JSON)
          /\ output_text' = Append(output_text, STR_RECEIVED \o TXT_ERROR_UTF8 \o <<"\n">>)
          /\ UNCHANGED <<buttons, modals, ser, handles>>
          /\ IsOpen(ser', handles')
          /\ ~last'.raised
          /\ last'.after = 1
          /\ pending' >= 1]_vars

\* the line with the byte 0xFF was received, and the connection is open
C16_Witness ==
    /\ last.op = "tick"
    /\ last.recv = PyStr(TXT_ERROR_UTF8)
    /\ last.logged = 1
    /\ IsOpen(ser, handles)
    /\ pending >= 1

\* C17: at any time at most one auto_receive callback is scheduled, however
\* many open_port calls were made.
C17_AtMostOneTickPending == pending <= 1

\* C18: a tick makes at most one readline call and takes from the front of
\* the buffer at most one line (no line feed before the last byte taken),
\* leaving the rest in place; what it dispatches is what that line parses to,
\* as at most one log line and at most one notification; with the
\* game_status frame buffered in front of the win_status frame, the tick
\* logs "Game status: Game reset." and leaves the win_status frame.  The
\* device only adds bytes at the end of the buffer, a command leaves the
\* buffer and the widgets as they are, and an open starts with an empty
\* buffer: so each line is dispatched at most once, in the order written.
C18_OneLinePerTickInOrder ==
    [][/\ (last'.op = "tick" =>
             /\ last'.reads <= 1
             /\ Len(rx') <= Len(rx)
             /\ rx' = SubSeq(rx, Len(rx) - Len(rx') + 1, Len(rx))
             /\ \A n \in 1..(Len(rx) - Len(rx') - 1) : rx[n] # 10
             /\ (Len(rx') < Len(rx) =>
                    /\ last'.reads = 1
                    /\ last'.recv = ParseLine(Decode(SubSeq(rx, 1, Len(rx) - Len(rx')))))
             /\ Len(output_text') <= Len(output_text) + 1
             /\ Len(modals') <= Len(modals) + 1
             /\ (last'.reads = 0 => UNCHANGED <<rx, buttons, output_text, modals>>))
       /\ ((last'.op = "tick" /\ pending > 0 /\ IsOpen(ser, handles)
              /\ rx = LINE_STATUS \o LINE_WIN) =>
             /\ rx' = LINE_WIN
             /\ output_text' = Append(output_text, STR_GAME_STATUS \o TXT_RESET \o <<"\n">>)
             /\ UNCHANGED modals)
       /\ (last'.op = "device" =>
             (Len(rx') >= Len(rx) /\ SubSeq(rx', 1, Len(rx)) = rx))
       /\ (last'.op \in SendOps => UNCHANGED <<rx, buttons, output_text, modals>>)
       /\ (last'.op = "open" => rx' = <<>>)]_vars

\* two frames were buffered; a tick dispatched the first and left the second
C18_Witness ==
    /\ last.op = "tick"
    /\ last.reads = 1
    /\ frames = 2
    /\ wire = <<>>
    /\ rx = LINE_WIN
    /\ output_text = <<STR_GAME_STATUS \o TXT_RESET \o <<"\n">>>>
    /\ modals = <<>>

\* C19: when the dispatch of a board message raises (the grid is not 3x3),
\* the tick has changed the text of no button.
C19_BoardRenderAllOrNothing ==
    [][(/\ last'.op = "tick"
        /\ last'.raised
        /\ last'.recv.t = "dict"
        /\ DictHas(last'.recv, KEY_BOARD)) => buttons' = buttons]_vars

\* C20: an open_port_callback in which serial.Serial raised schedules no
\* tick, sets the status label to "Error: " and the exception text, and
\* appends "Failed to connect: " with that status to the log; the number of
\* scheduled ticks grows only in a step that is a successful open, so no tick
\* is scheduled before the first successful open.
C20_OnlySuccessfulOpenStartsPolling ==
    [][/\ ((last'.op = "open" /\ last'.fault # <<>>) =>
             /\ pending' = pending
             /\ last'.after = 0
             /\ status_label' = STR_ERROR \o last'.fault
             /\ output_text' = Append(output_text,
                                       STR_FAILED_TO_CONNECT \o STR_ERROR \o last'.fault
                                           \o <<"\n">>))
       /\ (pending' > pending => (last'.op = "open" /\ last'.fault = <<>> /\ ser' # 0))]_vars
=============================================================================
